---------------------------- MODULE Spec2Model ----------------------------
(***************************************************************************)
(* A model of pycdo: the operator-listing parser (pycdo/utils.py) and the  *)
(* help-text parsers, template expansion, binding synthesis and            *)
(* attachment driver (pycdo/cdo.py).                                       *)
(*                                                                         *)
(* Text is modelled at the character level: a Python str is a sequence of  *)
(* one-character strings, so that the regular expressions and the str      *)
(* methods of the source are computed as the source computes them.         *)
(***************************************************************************)
EXTENDS Integers, Sequences, FiniteSets, TLC

VARIABLES
    gen,        \* the structured input the argument was rendered from
    arg,        \* the argument (a text, a call) handed to the function under analysis
    ret,        \* what the function returned or raised
    pc,         \* Cdo.__init__: position of the constructor
    operators,  \* Cdo.__init__: self.operators['name'], the sorted name column
    idx,        \* Cdo.__init__: index of the next operator to attach
    cls,        \* the members of class Cdo: name -> member
    warnings,   \* the operators a warning was printed for, in order
    log,        \* history: one entry per attachment attempt / fetch
    ninit       \* number of Cdo() constructions started so far

vars == <<gen, arg, ret, pc, operators, idx, cls, warnings, log, ninit>>

-----------------------------------------------------------------------------
(* Characters and Python str methods                                       *)

NL == "\n"
SP == " "

Digits == {"0","1","2","3","4","5","6","7","8","9"}
LowerCase == {"a","b","c","d","e","f","g","h","i","j","k","l","m",
              "n","o","p","q","r","s","t","u","v","w","x","y","z"}
UpperCase == {"A","B","C","D","E","F","G","H","I","J","K","L","M",
              "N","O","P","Q","R","S","T","U","V","W","X","Y","Z"}
WhiteSpace == {" ", "\n", "\t"}

\* The ASCII characters the modelled texts use, in code-point order (str
\* comparison).
Ascii == <<"\t", "\n", " ","#","'","(",")",",","-",".",
           "0","1","2","3","4","5","6","7","8","9","<","=",">",
           "A","B","C","D","E","F","G","H","I","J","K","L","M",
           "N","O","P","Q","R","S","T","U","V","W","X","Y","Z",
           "[","]","_",
           "a","b","c","d","e","f","g","h","i","j","k","l","m",
           "n","o","p","q","r","s","t","u","v","w","x","y","z","|">>

Ord(c) == CHOOSE i \in 1..Len(Ascii) : Ascii[i] = c

\* The first index j >= i of s at which the run of characters in C ends.
RunIn(s, i, C) ==
    CHOOSE j \in i..(Len(s) + 1) :
        /\ \A k \in i..(j - 1) : s[k] \in C
        /\ (j = Len(s) + 1 \/ s[j] \notin C)

\* The first index j >= i of s at which the run of characters not in C ends.
RunNotIn(s, i, C) ==
    CHOOSE j \in i..(Len(s) + 1) :
        /\ \A k \in i..(j - 1) : s[k] \notin C
        /\ (j = Len(s) + 1 \/ s[j] \in C)

\* The last index j <= i of s such that s[j+1..i] are all in C.
RunInBack(s, i, C) ==
    CHOOSE j \in 0..i :
        /\ \A k \in (j + 1)..i : s[k] \in C
        /\ (j = 0 \/ s[j] \notin C)

Slice(s, a, b) == IF a > b THEN <<>> ELSE SubSeq(s, a, b)

\* str.lstrip(chars), str.rstrip(chars), str.strip(chars)
LStripSet(s, C) == Slice(s, RunIn(s, 1, C), Len(s))
RStripSet(s, C) == Slice(s, 1, RunInBack(s, Len(s), C))
StripSet(s, C) == LStripSet(RStripSet(s, C), C)
strip(s) == StripSet(s, WhiteSpace)
rstrip(s) == RStripSet(s, WhiteSpace)

\* s.startswith(p) at offset i (1-based)
StartsWithAt(s, p, i) ==
    /\ i + Len(p) - 1 <= Len(s)
    /\ \A k \in 1..Len(p) : s[i + k - 1] = p[k]

\* p in s
Contains(s, p) == \E i \in 1..(Len(s) + 1) : StartsWithAt(s, p, i)

\* str.splitlines() (the line boundary of the modelled texts is "\n")
RECURSIVE splitlines(_)
splitlines(s) ==
    IF s = <<>> THEN <<>>
    ELSE LET j == RunNotIn(s, 1, {NL})
         IN  <<Slice(s, 1, j - 1)>> \o splitlines(Slice(s, j + 1, Len(s)))

\* str.split(sep) for a one-character separator: always at least one piece
RECURSIVE split(_, _)
split(s, sep) ==
    LET j == RunNotIn(s, 1, {sep})
    IN  IF j > Len(s) THEN <<s>>
        ELSE <<Slice(s, 1, j - 1)>> \o split(Slice(s, j + 1, Len(s)), sep)

\* str.split(): whitespace-separated tokens, no empty piece
RECURSIVE splitws(_)
splitws(s) ==
    LET a == RunIn(s, 1, WhiteSpace)
        b == RunNotIn(s, a, WhiteSpace)
    IN  IF a > Len(s) THEN <<>>
        ELSE <<Slice(s, a, b - 1)>> \o splitws(Slice(s, b, Len(s)))

\* sep.join(parts)
RECURSIVE join(_, _)
join(sep, parts) ==
    IF parts = <<>> THEN <<>>
    ELSE IF Len(parts) = 1 THEN parts[1]
    ELSE parts[1] \o sep \o join(sep, Tail(parts))

\* [f(x) for x in seq if P(x)] building blocks
RECURSIVE NonEmpty(_)
NonEmpty(parts) ==
    IF parts = <<>> THEN <<>>
    ELSE (IF parts[1] = <<>> THEN <<>> ELSE <<parts[1]>>) \o NonEmpty(Tail(parts))

StripAll(parts) == [k \in 1..Len(parts) |-> strip(parts[k])]

RECURSIVE Flatten(_)
Flatten(ss) == IF ss = <<>> THEN <<>> ELSE ss[1] \o Flatten(Tail(ss))

\* a < b for str
RECURSIVE StrLess(_, _)
StrLess(a, b) ==
    IF b = <<>> THEN FALSE
    ELSE IF a = <<>> THEN TRUE
    ELSE IF a[1] # b[1] THEN Ord(a[1]) < Ord(b[1])
    ELSE StrLess(Tail(a), Tail(b))

\* Python values: None, and a str
None == [t |-> "None"]
PyStr(s) == [t |-> "str", v |-> s]

-----------------------------------------------------------------------------
(* pycdo/utils.py: the operator listing                                    *)

ArityChars == Digits \cup {"-"}
NoMatch == [matched |-> FALSE]

\* LINE_RE = ^(\S+)(?:\s+(.*?))?\s*\(([-\d]+)\|([-\d]+)\)\s*$
\* The tail "(A|B)" is anchored at the end of the line (before trailing
\* whitespace) and A, B hold no "(", "|" or ")", so the tail is found by
\* scanning back; group 1 is the leading run of non-space characters (all of
\* the prefix when no whitespace precedes the tail, group 2 then being
\* unset); the lazy group 2 followed by the greedy \s* is the rest of the
\* prefix without its surrounding whitespace.
LINE_RE(line) ==
    LET e  == RunInBack(line, Len(line), WhiteSpace)  \* index of ")"
        k  == RunInBack(line, e - 1, ArityChars)      \* index of "|"
        k2 == RunInBack(line, k - 1, ArityChars)      \* index of "("
        pre == Slice(line, 1, k2 - 1)
        w  == RunNotIn(pre, 1, WhiteSpace)
    IN  IF e = 0 \/ line[e] # ")" THEN NoMatch
        ELSE IF k = e - 1 \/ k = 0 \/ line[k] # "|" THEN NoMatch
        ELSE IF k2 = k - 1 \/ k2 = 0 \/ line[k2] # "(" THEN NoMatch
        ELSE IF w = 1 THEN NoMatch
        ELSE [matched |-> TRUE,
              name  |-> Slice(pre, 1, w - 1),
              desc  |-> IF w > Len(pre) THEN None
                        ELSE PyStr(strip(Slice(pre, w, Len(pre)))),
              n_in  |-> Slice(line, k2 + 1, k - 1),
              n_out |-> Slice(line, k + 1, e - 1)]

Arrow == <<"-", "-", ">">>

\* ALIAS_RE = -->\s*(\S+), ALIAS_RE.search(desc): group 1 of the leftmost
\* "-->" that a non-space character follows after optional whitespace, or None.
ALIAS_RE(desc) ==
    LET hits == {p \in 1..Len(desc) :
                    /\ StartsWithAt(desc, Arrow, p)
                    /\ RunIn(desc, p + 3, WhiteSpace) <= Len(desc)}
    IN  IF hits = {} THEN None
        ELSE LET p == CHOOSE h \in hits : \A o \in hits : h <= o
                 q == RunIn(desc, p + 3, WhiteSpace)
             IN  PyStr(Slice(desc, q, RunNotIn(desc, q, WhiteSpace) - 1))

\* int(s) for s made of digits and "-": defined on -?[0-9]+, ValueError otherwise
IsIntLiteral(s) ==
    LET d == IF s # <<>> /\ s[1] = "-" THEN Tail(s) ELSE s
    IN  d # <<>> /\ \A k \in 1..Len(d) : d[k] \in Digits

RECURSIVE NatOf(_)
NatOf(d) ==
    IF d = <<>> THEN 0
    ELSE 10 * NatOf(Slice(d, 1, Len(d) - 1)) + (Ord(d[Len(d)]) - Ord("0"))

\* int() that drops the sign
int_unsigned(s) == NatOf(IF s[1] = "-" THEN Tail(s) ELSE s)

int(s) == IF s[1] = "-" THEN 0 - NatOf(Tail(s)) ELSE NatOf(s)

\* The body of the for loop of parse_cdo_operator_listing for one line:
\* "skip", "raise" (int() fails) or the row appended.
ListingRow(raw_line) ==
    LET line == rstrip(raw_line)
        m == LINE_RE(line)
        desc == IF m.desc = None THEN <<>> ELSE rstrip(m.desc.v)
        alias_match == ALIAS_RE(desc)
    IN  IF line = <<>> THEN [kind |-> "skip"]
        ELSE IF ~m.matched THEN [kind |-> "skip"]
        ELSE IF ~IsIntLiteral(m.n_in) \/ ~IsIntLiteral(m.n_out)
             THEN [kind |-> "raise"]
        ELSE [kind |-> "row",
              row |-> [name |-> m.name,
                       description |-> IF desc # <<>> THEN PyStr(desc) ELSE None,
                       inputs |-> int(m.n_in),
                       outputs |-> int(m.n_out),
                       is_alias |-> alias_match # None,
                       alias_to |-> alias_match]]

\* The for loop: the rows collected, or "raised" at the first failing line.
RECURSIVE ListingRows(_, _)
ListingRows(lines, rows) ==
    IF lines = <<>> THEN [raised |-> FALSE, rows |-> rows]
    ELSE LET r == ListingRow(lines[1])
         IN  IF r.kind = "raise" THEN [raised |-> TRUE, rows |-> rows]
             ELSE ListingRows(Tail(lines),
                              IF r.kind = "row" THEN Append(rows, r.row) ELSE rows)

\* df.sort_values("name").reset_index(drop=True): the orders a sort by name
\* can produce (the default sort is not stable, so rows of equal name may
\* come out in either order).
sort_values(rows) ==
    LET n == Len(rows)
        perms == {p \in [1..n -> 1..n] : \A a, b \in 1..n : a # b => p[a] # p[b]}
    IN  {[k \in 1..n |-> rows[p[k]]] : p \in
            {q \in perms : \A a \in 1..(n - 1) :
                ~StrLess(rows[q[a + 1]].name, rows[q[a]].name)}}

\* parse_cdo_operator_listing(arg): the set of outcomes. A frame built from
\* no rows has no "name" column, and sorting it by "name" raises KeyError.
parse_cdo_operator_listing(t) ==
    LET r == ListingRows(splitlines(t), <<>>)
    IN  IF r.raised THEN {[status |-> "raised", exc |-> "ValueError"]}
        ELSE IF r.rows = <<>> THEN {[status |-> "raised", exc |-> "KeyError"]}
        ELSE {[status |-> "returned", rows |-> df] : df \in sort_values(r.rows)}

\* str(n) for an int
RECURSIVE NatStr(_)
NatStr(n) ==
    IF n < 10 THEN <<Ascii[Ord("0") + n]>>
    ELSE NatStr(n \div 10) \o <<Ascii[Ord("0") + (n % 10)]>>

IntStr(n) == IF n < 0 THEN <<"-">> \o NatStr(0 - n) ELSE NatStr(n)

-----------------------------------------------------------------------------
(* Listing texts: lines rendered from a name, description words, a gap and *)
(* two arities                                                             *)

MaxDescWords == 2

Pending == [status |-> "pending"]

w_abs  == <<"a","b","s">>
w_cat  == <<"c","a","t">>
w_copy == <<"c","o","p","y">>
w_x    == <<"x">>
w_to   == <<"t","o">>

ListNames == {w_abs, w_cat, w_copy}
DescWords == {w_x, w_to, Arrow}

SeqsUpTo(S, n) == UNION {[1..k -> S] : k \in 0..n}

\* An arity as the listing prints it: an integer, or a token of the
\* characters [-0-9] that is no integer.
Arities == {[wf |-> TRUE, v |-> n] : n \in {-1, 0, 1, 12}}
               \cup {[wf |-> FALSE, s |-> <<"-">>]}
OutArities == {[wf |-> TRUE, v |-> n] : n \in {-2, 1}}

ArityText(a) == IF a.wf THEN IntStr(a.v) ELSE a.s

ListingLines ==
    [name : ListNames, desc : SeqsUpTo(DescWords, MaxDescWords), gap : 0..2,
     nin : Arities, nout : OutArities]

Spaces(n) == [k \in 1..n |-> SP]

RenderListingLine(l) ==
    l.name \o (IF l.desc = <<>> THEN <<>> ELSE <<SP>> \o join(<<SP>>, l.desc))
           \o Spaces(l.gap) \o <<"(">> \o ArityText(l.nin) \o <<"|">>
           \o ArityText(l.nout) \o <<")">>

\* What may precede the rendered line in the listing: nothing, a blank line,
\* a line that is no listing line, or a second listing line.
w_junk == <<"P","r","o","c","e","s","s","e","d",":">>
SecondLine == [name |-> w_cat, desc |-> <<w_x>>, gap |-> 1,
               nin |-> [wf |-> TRUE, v |-> 1], nout |-> [wf |-> TRUE, v |-> 1]]
Prefixes == {[kind |-> "none"], [kind |-> "raw", s |-> <<>>],
             [kind |-> "raw", s |-> w_junk], [kind |-> "line", l |-> SecondLine]}

RenderPrefix(p) ==
    IF p.kind = "none" THEN <<>>
    ELSE IF p.kind = "raw" THEN p.s \o <<NL>>
    ELSE RenderListingLine(p.l) \o <<NL>>

ListingGens == [prefix : Prefixes, line : ListingLines]
RenderListing(g) == RenderPrefix(g.prefix) \o RenderListingLine(g.line) \o <<NL>>

CdoIdle ==
    /\ pc = "idle"
    /\ operators = <<>>
    /\ idx = 0
    /\ cls = <<>>
    /\ warnings = <<>>
    /\ log = <<>>
    /\ ninit = 0

cdoVars == <<pc, operators, idx, cls, warnings, log, ninit>>

InitListing ==
    /\ gen \in ListingGens
    /\ arg = RenderListing(gen)
    /\ ret = Pending
    /\ CdoIdle

\* parse_cdo_operator_listing(arg) is called and returns or raises
ParseListingCall ==
    /\ ret = Pending
    /\ \E o \in parse_cdo_operator_listing(arg) : ret' = o
    /\ UNCHANGED <<gen, arg, cdoVars>>

NextListing == ParseListingCall

SpecListing == InitListing /\ [][NextListing]_vars

-----------------------------------------------------------------------------
(* C6                                                                      *)

GenLines(g) ==
    (IF g.prefix.kind = "line" THEN <<g.prefix.l>> ELSE <<>>) \o <<g.line>>

\* The record a well-formed line stands for, read off the line's parts.
ExpectedAlias(desc) ==
    LET hits == {i \in 1..(Len(desc) - 1) : desc[i] = Arrow}
    IN  IF hits = {} THEN None
        ELSE PyStr(desc[(CHOOSE h \in hits : \A o \in hits : h <= o) + 1])

ExpectedRow(l) ==
    [name |-> l.name, inputs |-> l.nin.v, outputs |-> l.nout.v,
     is_alias |-> ExpectedAlias(l.desc) # None, alias_to |-> ExpectedAlias(l.desc)]

RowKey(r) ==
    [name |-> r.name, inputs |-> r.inputs, outputs |-> r.outputs,
     is_alias |-> r.is_alias, alias_to |-> r.alias_to]

Count(s, x) == Cardinality({k \in 1..Len(s) : s[k] = x})

SameBag(a, b) ==
    /\ Len(a) = Len(b)
    /\ \A k \in 1..Len(a) : Count(a, a[k]) = Count(b, a[k])

WellFormedGen(g) ==
    \A k \in 1..Len(GenLines(g)) : GenLines(g)[k].nin.wf /\ GenLines(g)[k].nout.wf

\* C6: every well-formed listing line NAME [DESC] (IN|OUT) yields a record
\* with exactly the line's name, inputs and outputs (negative ones included),
\* with is_alias true and alias_to = X when the description holds "--> X",
\* and is_alias false and no alias_to otherwise.
Thm_C6_ListingParse ==
    (ret # Pending /\ WellFormedGen(gen)) =>
        /\ ret.status = "returned"
        /\ SameBag([k \in 1..Len(ret.rows) |-> RowKey(ret.rows[k])],
                   [k \in 1..Len(GenLines(gen)) |-> ExpectedRow(GenLines(gen)[k])])

\* A listing of two lines parsed to an alias record of negative input arity.
Wit_C6_AliasNegative ==
    /\ ret # Pending
    /\ ret.status = "returned"
    /\ Len(ret.rows) = 2
    /\ \E k \in 1..2 : /\ ret.rows[k].is_alias
                       /\ ret.rows[k].alias_to = PyStr(w_to)
                       /\ ret.rows[k].inputs = -1

-----------------------------------------------------------------------------
(* pycdo/cdo.py: the synopsis parser                                       *)

NameChars == LowerCase \cup UpperCase \cup Digits \cup {"_"}
SynopsisChars == NameChars \cup {"<", ">", ",", "[", "]"}

\* SYNOPSIS_LINE_RE = ^\s*([a-zA-Z0-9_<>,\[\]]+)\s+(.+)$ , match(line):
\* leading whitespace, the maximal run of class characters (group 1), the
\* maximal run of whitespace, and the non-empty rest of the line (group 2).
SYNOPSIS_LINE_RE(line) ==
    LET a == RunIn(line, 1, WhiteSpace)
        b == RunIn(line, a, SynopsisChars)
        c == RunIn(line, b, WhiteSpace)
    IN  IF b = a \/ c = b \/ c > Len(line) THEN NoMatch
        ELSE [matched |-> TRUE, g1 |-> Slice(line, a, b - 1),
              g2 |-> Slice(line, c, Len(line))]

\* The matches of \[([^\]]+)\] in s, left to right: a "[", one or more
\* characters other than "]", and the next "]". groups: what re.findall
\* returns; rest: what re.sub(..., '', s) returns.
RECURSIVE BracketScan(_)
BracketScan(s) ==
    IF s = <<>> THEN [groups |-> <<>>, rest |-> <<>>]
    ELSE LET r == RunNotIn(s, 2, {"]"})
         IN  IF s[1] = "[" /\ r <= Len(s) /\ r > 2
             THEN LET t == BracketScan(Slice(s, r + 1, Len(s)))
                  IN  [groups |-> <<Slice(s, 2, r - 1)>> \o t.groups, rest |-> t.rest]
             ELSE LET t == BracketScan(Tail(s))
                  IN  [groups |-> t.groups, rest |-> <<s[1]>> \o t.rest]

\* for opt_block in findall: for item in opt_block.split(','): strip, keep if non-empty
OptionalParams(op_and_params) ==
    LET groups == BracketScan(op_and_params).groups
    IN  NonEmpty(Flatten([k \in 1..Len(groups) |-> StripAll(split(groups[k], ","))]))

\* parts = [p for p in required_part.split(',') if p]
RequiredParts(op_and_params) == NonEmpty(split(BracketScan(op_and_params).rest, ","))

\* the last of two or more I/O tokens is the output token
SplitIO_wrong(io_tokens) ==
    IF Len(io_tokens) >= 1
    THEN [in_tokens |-> Slice(io_tokens, 1, Len(io_tokens) - 1),
          out_tokens |-> <<io_tokens[Len(io_tokens)]>>]
    ELSE [in_tokens |-> io_tokens, out_tokens |-> <<>>]

SplitIO(io_tokens) ==
    IF Len(io_tokens) >= 2
    THEN [in_tokens |-> Slice(io_tokens, 1, Len(io_tokens) - 1),
          out_tokens |-> <<io_tokens[Len(io_tokens)]>>]
    ELSE [in_tokens |-> io_tokens, out_tokens |-> <<>>]

OperatorLit == <<"<","o","p","e","r","a","t","o","r",">">>

\* is_template computed by equality with the placeholder
IsTemplate_eq(op_name) == op_name = OperatorLit

\* '<operator>' in op_name
IsTemplate(op_name) == Contains(op_name, OperatorLit)

\* The body of the for loop of _parse_synopsis_block for one line: "skip",
\* "raise" (parts[0] of an empty list: IndexError) or the spec appended.
SynopsisLine(raw_line) ==
    LET line == rstrip(raw_line)
        m == SYNOPSIS_LINE_RE(line)
        parts == RequiredParts(m.g1)
        io == SplitIO(splitws(m.g2))
    IN  IF line = <<>> \/ line[1] = "#" THEN [kind |-> "skip"]
        ELSE IF ~m.matched THEN [kind |-> "skip"]
        ELSE IF parts = <<>> THEN [kind |-> "raise"]
        ELSE [kind |-> "spec",
              spec |-> [op |-> parts[1],
                        required_params |-> Tail(parts),
                        optional_params |-> OptionalParams(m.g1),
                        in_tokens |-> io.in_tokens,
                        out_tokens |-> io.out_tokens,
                        is_template |-> IsTemplate(parts[1])]]

RECURSIVE SynopsisSpecs(_, _)
SynopsisSpecs(lines, specs) ==
    IF lines = <<>> THEN [status |-> "returned", specs |-> specs]
    ELSE LET r == SynopsisLine(lines[1])
         IN  IF r.kind = "raise" THEN [status |-> "raised", exc |-> "IndexError"]
             ELSE SynopsisSpecs(Tail(lines),
                                IF r.kind = "spec" THEN Append(specs, r.spec) ELSE specs)

_parse_synopsis_block(block) == SynopsisSpecs(splitlines(block), <<>>)

-----------------------------------------------------------------------------
(* Synopsis lines: a left half of comma-joined elements (plain tokens and  *)
(* bracketed groups of items), and a right half of I/O tokens              *)

MaxElems == 3

w_foo  == <<"f","o","o">>
w_p1   == <<"p","1">>
w_flag == <<"f","l","a","g">>
w_a    == <<"a">>
w_b    == <<"b">>
w_in   == <<"i","n">>
w_in1  == <<"i","n","1">>
w_in2  == <<"i","n","2">>
w_out  == <<"o","u","t">>

Tok(s) == [k |-> "tok", s |-> s]
Grp(items) == [k |-> "grp", items |-> items]

SynElems == {Tok(w_foo), Tok(w_p1), Tok(OperatorLit), Tok(<<"x">> \o OperatorLit),
             Tok(<<>>), Grp(<<w_flag>>), Grp(<<w_a, w_b>>), Grp(<<w_a, <<>>, w_b>>),
             Grp(<<>>)}

SynIOs == {<<w_in>>, <<w_in, w_out>>, <<w_in1, w_in2, w_out>>}
SynLeads == {<<>>, <<SP, SP>>, <<"#">>}

RenderElem(e) ==
    IF e.k = "tok" THEN e.s ELSE <<"[">> \o join(<<",">>, e.items) \o <<"]">>

LeftHalf(elems) == join(<<",">>, [k \in 1..Len(elems) |-> RenderElem(elems[k])])

\* the element sequences that render to a (non-empty) left half
SynGens ==
    [elems : {es \in SeqsUpTo(SynElems, MaxElems) : LeftHalf(es) # <<>>},
     io : SynIOs, lead : SynLeads]

RenderSynopsis(g) ==
    g.lead \o LeftHalf(g.elems) \o <<SP>> \o join(<<SP>>, g.io) \o <<NL>>

InitSynopsis ==
    /\ gen \in SynGens
    /\ arg = RenderSynopsis(gen)
    /\ ret = Pending
    /\ CdoIdle

\* _parse_synopsis_block(arg) is called and returns or raises
ParseSynopsisCall ==
    /\ ret = Pending
    /\ ret' = _parse_synopsis_block(arg)
    /\ UNCHANGED <<gen, arg, cdoVars>>

NextSynopsis == ParseSynopsisCall

SpecSynopsis == InitSynopsis /\ [][NextSynopsis]_vars

-----------------------------------------------------------------------------
(* C7, C8, C9                                                              *)

\* A rendered element is a bracketed group when something stands between
\* its brackets; "[]" is not matched by \[([^\]]+)\] and stays a plain token.
IsGroup(e) == e.k = "grp" /\ join(<<",">>, e.items) # <<>>

ExpectedTokens(g) ==
    NonEmpty([k \in 1..Len(g.elems) |->
                 IF g.elems[k].k = "tok" THEN g.elems[k].s
                 ELSE IF IsGroup(g.elems[k]) THEN <<>>
                 ELSE <<"[", "]">>])

ExpectedOptional(g) ==
    NonEmpty(Flatten([k \in 1..Len(g.elems) |->
                 IF IsGroup(g.elems[k]) THEN g.elems[k].items ELSE <<>>]))

ExpectedIn(g) == IF Len(g.io) >= 2 THEN SubSeq(g.io, 1, Len(g.io) - 1) ELSE g.io
ExpectedOut(g) == IF Len(g.io) >= 2 THEN <<g.io[Len(g.io)]>> ELSE <<>>

Parsed == ret # Pending /\ ret.status = "returned"

\* the line "foo,p1,[flag] in1 in2 out"
ExampleGen(g) ==
    /\ g.elems = <<Tok(w_foo), Tok(w_p1), Grp(<<w_flag>>)>>
    /\ g.io = <<w_in1, w_in2, w_out>>
    /\ g.lead = <<>>

\* C9: for every synopsis line the parser yields a spec for, optional_params
\* are the (non-empty) comma-separated items of the bracketed groups, left to
\* right and in group order; with the groups removed, the non-empty
\* comma-separated tokens left are the operator token followed by
\* required_params; of the right half's tokens the last of two or more is
\* the output token and the others the input tokens, and a single token is
\* an input token. "foo,p1,[flag] in1 in2 out" gives required [p1], optional
\* [flag], two input tokens, one output token and is_template false.
Thm_C9_SynopsisLine ==
    (Parsed /\ ret.specs # <<>>) =>
        /\ Len(ret.specs) = 1
        /\ <<ret.specs[1].op>> \o ret.specs[1].required_params = ExpectedTokens(gen)
        /\ ret.specs[1].optional_params = ExpectedOptional(gen)
        /\ ret.specs[1].in_tokens = ExpectedIn(gen)
        /\ ret.specs[1].out_tokens = ExpectedOut(gen)
        /\ ExampleGen(gen) =>
              ret.specs[1] = [op |-> w_foo, required_params |-> <<w_p1>>,
                              optional_params |-> <<w_flag>>,
                              in_tokens |-> <<w_in1, w_in2>>,
                              out_tokens |-> <<w_out>>, is_template |-> FALSE]

\* "foo,p1,[flag] in1 in2 out" has been parsed to one spec.
Wit_C9_Example ==
    /\ Parsed
    /\ ExampleGen(gen)
    /\ Len(ret.specs) = 1
    /\ ret.specs[1].optional_params = <<w_flag>>
    /\ Len(ret.specs[1].in_tokens) = 2

\* A one-token right half and an item-less group were parsed too.
Wit_C9_EdgeShapes ==
    /\ Parsed
    /\ ret.specs # <<>>
    /\ gen.io = <<w_in>>
    /\ \E k \in 1..Len(gen.elems) : gen.elems[k] = Grp(<<w_a, <<>>, w_b>>)

\* C7 (as stated): is_template is true exactly when the operator token
\* equals the literal "<operator>".
Claim_C7_TemplateIffEqual ==
    Parsed => \A k \in 1..Len(ret.specs) :
                  ret.specs[k].is_template <=> (ret.specs[k].op = OperatorLit)

\* C7 (amended): is_template is true exactly when the operator token
\* contains "<operator>": pre \o "<operator>" \o suf for some pre and suf.
Thm_C7_TemplateIffContains ==
    Parsed => \A k \in 1..Len(ret.specs) :
                  LET op == ret.specs[k].op
                  IN  ret.specs[k].is_template <=>
                        \E i \in 0..Len(op) :
                            /\ i + Len(OperatorLit) <= Len(op)
                            /\ SubSeq(op, i + 1, i + Len(OperatorLit)) = OperatorLit

\* An operator token that holds the placeholder without being it was parsed,
\* and so were the placeholder itself and a token without it.
Wit_C7_SubstringToken ==
    /\ Parsed
    /\ Len(ret.specs) = 1
    /\ ret.specs[1].op = <<"x">> \o OperatorLit
    /\ ret.specs[1].is_template

\* C8: no parser raises, and a line whose left half keeps no operator token
\* once its bracketed groups are removed is skipped and yields no record.
Claim_C8_ParsersNeverRaise ==
    ret # Pending =>
        /\ ret.status = "returned"
        /\ ExpectedTokens(gen) = <<>> => ret.specs = <<>>

-----------------------------------------------------------------------------
(* pycdo/cdo.py: the section splitter                                      *)

h_NAME        == <<"N","A","M","E">>
h_SYNOPSIS    == <<"S","Y","N","O","P","S","I","S">>
h_DESCRIPTION == <<"D","E","S","C","R","I","P","T","I","O","N">>
h_OPERATORS   == <<"O","P","E","R","A","T","O","R","S">>
h_PARAMETER   == <<"P","A","R","A","M","E","T","E","R">>
h_ENVIRONMENT == <<"E","N","V","I","R","O","N","M","E","N","T">>

Headers == {h_NAME, h_SYNOPSIS, h_DESCRIPTION, h_OPERATORS, h_PARAMETER, h_ENVIRONMENT}

\* HELP_HEADERS_RE = ^(NAME|...|ENVIRONMENT)\s*$ with re.MULTILINE, tried at
\* index p: p starts a line, a header stands there (no header is a prefix of
\* another), and the greedy \s* gives back whitespace until "$" holds, that
\* is until the end of the text or a newline follows. \s matches newlines,
\* so the match runs over whitespace-only lines below the header and ends
\* before the last newline of that run. end is the index after the match.
HeaderAt(t, p) ==
    LET hs == {h \in Headers : StartsWithAt(t, h, p)}
        h  == CHOOSE x \in hs : TRUE
        q  == p + Len(h)
        es == {e \in q..RunIn(t, q, WhiteSpace) : e = Len(t) + 1 \/ t[e] = NL}
    IN  IF ~(p = 1 \/ t[p - 1] = NL) THEN NoMatch
        ELSE IF hs = {} \/ es = {} THEN NoMatch
        ELSE [matched |-> TRUE, group1 |-> h, start |-> p,
              end |-> CHOOSE e \in es : \A o \in es : o <= e]

\* list(HELP_HEADERS_RE.finditer(help_text)): the matches in text order. A
\* match holds a header and whitespace only, so no match starts inside
\* another and the search finds the match at every index that has one.
HeaderMatches(t) ==
    LET P == {p \in 1..Len(t) : HeaderAt(t, p).matched}
        nth(i) == CHOOSE p \in P : Cardinality({q \in P : q < p}) = i - 1
    IN  [i \in 1..Cardinality(P) |-> HeaderAt(t, nth(i))]

\* _split_sections(help_text): header -> body; a later match of a header
\* overwrites the entry of an earlier one.
_split_sections(help_text) ==
    LET matches == HeaderMatches(help_text)
        body(i) == StripSet(Slice(help_text, matches[i].end,
                                  IF i + 1 <= Len(matches)
                                  THEN matches[i + 1].start - 1
                                  ELSE Len(help_text)),
                            {NL})
        last(h) == CHOOSE i \in 1..Len(matches) :
                       /\ matches[i].group1 = h
                       /\ \A j \in (i + 1)..Len(matches) : matches[j].group1 # h
    IN  [h \in {matches[i].group1 : i \in 1..Len(matches)} |-> body(last(h))]

\* sections.get(key, '')
SectionGet(sections, key) == IF key \in DOMAIN sections THEN sections[key] ELSE <<>>

-----------------------------------------------------------------------------
(* Help texts built from sections: a header alone on its line, its body    *)

MaxSections == 2

w_xy == <<"x", NL, NL, "y">>

\* Bodies: empty, one line, an indented line, two paragraphs, a line between
\* empty lines, a line below a whitespace-only line, a line above one.
Bodies == {<<>>, <<"x">>, <<SP, SP, "x">>, w_xy, <<NL, "x", NL>>,
           <<SP, NL, "x">>, <<"x", NL, SP>>}

SectionGens == [header : Headers, body : Bodies]
SectionsGens == SeqsUpTo(SectionGens, MaxSections) \ {<<>>}

RenderSections(g) ==
    Flatten([k \in 1..Len(g) |-> g[k].header \o <<NL>> \o g[k].body \o <<NL>>])

InitSections ==
    /\ gen \in SectionsGens
    /\ arg = RenderSections(gen)
    /\ ret = Pending
    /\ CdoIdle

\* _split_sections(arg) is called and returns
SplitSectionsCall ==
    /\ ret = Pending
    /\ ret' = [status |-> "returned", sections |-> _split_sections(arg)]
    /\ UNCHANGED <<gen, arg, cdoVars>>

NextSections == SplitSectionsCall

SpecSections == InitSections /\ [][NextSections]_vars

-----------------------------------------------------------------------------
(* C10                                                                     *)

IsBlank(line) == \A k \in 1..Len(line) : line[k] \in WhiteSpace

\* a body without the blank lines around it, a blank line being one that
\* holds nothing but whitespace
TrimBlankLines(body) ==
    LET lines == split(body, NL)
        keep == {k \in 1..Len(lines) : ~IsBlank(lines[k])}
        lo == CHOOSE k \in keep : \A o \in keep : k <= o
        hi == CHOOSE k \in keep : \A o \in keep : o <= k
    IN  IF keep = {} THEN <<>> ELSE join(<<NL>>, SubSeq(lines, lo, hi))

\* a body without the empty lines around it
TrimEmptyLines(body) ==
    LET lines == split(body, NL)
        keep == {k \in 1..Len(lines) : lines[k] # <<>>}
        lo == CHOOSE k \in keep : \A o \in keep : k <= o
        hi == CHOOSE k \in keep : \A o \in keep : o <= k
    IN  IF keep = {} THEN <<>> ELSE join(<<NL>>, SubSeq(lines, lo, hi))

LastBody(g, h) ==
    g[CHOOSE i \in 1..Len(g) :
          g[i].header = h /\ \A j \in (i + 1)..Len(g) : g[j].header # h].body

\* C10: the splitter's keys are exactly the headers of the text, and each
\* header's value is the body of the header's last occurrence without the
\* blank lines around it (whether a blank line is an empty line or a line
\* of whitespace).
Claim_C10_SectionRoundTrip ==
    (ret # Pending) =>
        /\ DOMAIN ret.sections = {gen[k].header : k \in 1..Len(gen)}
        /\ \/ \A h \in DOMAIN ret.sections :
                  ret.sections[h] = TrimEmptyLines(LastBody(gen, h))
           \/ \A h \in DOMAIN ret.sections :
                  ret.sections[h] = TrimBlankLines(LastBody(gen, h))

-----------------------------------------------------------------------------
(* pycdo/cdo.py: the parameter block and the operator docs                 *)

\* TYPE_MAP.get(raw_type.upper(), 'str')
w_BOOL    == <<"B","O","O","L">>
w_BOOLEAN == <<"B","O","O","L","E","A","N">>
w_INT     == <<"I","N","T">>
w_INTEGER == <<"I","N","T","E","G","E","R">>
w_FLOAT   == <<"F","L","O","A","T">>
w_DOUBLE  == <<"D","O","U","B","L","E">>
w_NUM     == <<"N","U","M">>

TYPE_MAP(raw_type) ==
    IF raw_type \in {w_BOOL, w_BOOLEAN} THEN "bool"
    ELSE IF raw_type \in {w_INT, w_INTEGER} THEN "int"
    ELSE IF raw_type \in {w_FLOAT, w_DOUBLE, w_NUM} THEN "float"
    ELSE "str"

\* PARAM_LINE_RE = ^\s*([a-zA-Z0-9_]+)\s+([A-Z]+)\s+(.*\S)\s*$ : a name, an
\* upper-case type token and a description that ends in a non-space
\* character, separated by whitespace.
PARAM_LINE_RE(line) ==
    LET a == RunIn(line, 1, WhiteSpace)
        b == RunIn(line, a, NameChars)
        c == RunIn(line, b, WhiteSpace)
        d == RunIn(line, c, UpperCase)
        e == RunIn(line, d, WhiteSpace)
    IN  IF b = a \/ c = b \/ d = c \/ e = d \/ e > Len(line) THEN NoMatch
        ELSE [matched |-> TRUE, name |-> Slice(line, a, b - 1),
              raw_type |-> Slice(line, c, d - 1),
              desc |-> rstrip(Slice(line, e, Len(line)))]

\* _parse_parameters_block(block): name -> py_type (the description is kept
\* by the source for the docstring only); a later line of a name overwrites.
_parse_parameters_block(block) ==
    LET lines == splitlines(block)
        ms == [k \in 1..Len(lines) |-> PARAM_LINE_RE(lines[k])]
        hit == {k \in 1..Len(lines) : ms[k].matched}
        last(n) == CHOOSE k \in hit :
                       ms[k].name = n /\ \A j \in hit : ms[j].name = n => j <= k
    IN  [n \in {ms[k].name : k \in hit} |-> TYPE_MAP(ms[last(n)].raw_type)]

\* OPER_LINE_RE = ^\s*([a-z0-9_]+)\s{2,}(.+)$ with re.IGNORECASE: a name, two
\* or more whitespace characters, and at least one more character (which may
\* be the last of three or more trailing whitespace characters). short is
\* group 2 stripped.
OPER_LINE_RE(line) ==
    LET a == RunIn(line, 1, WhiteSpace)
        b == RunIn(line, a, NameChars)
        c == RunIn(line, b, WhiteSpace)
    IN  IF b = a \/ c - b < 2 \/ (c > Len(line) /\ c - b < 3) THEN NoMatch
        ELSE [matched |-> TRUE, name |-> Slice(line, a, b - 1),
              short |-> strip(Slice(line, c, Len(line)))]

\* _parse_operators_section(block): the keys of the result in insertion
\* order (list(op_docs.keys())), a key keeping the place of its first line.
\* Blank and continuation lines only add to long_lines, which the docstring
\* alone reads.
RECURSIVE OperatorDocKeys(_, _)
OperatorDocKeys(lines, keys) ==
    IF lines = <<>> THEN keys
    ELSE LET m == OPER_LINE_RE(lines[1])
         IN  OperatorDocKeys(Tail(lines),
                 IF strip(lines[1]) # <<>> /\ m.matched
                        /\ \A k \in 1..Len(keys) : keys[k] # m.name
                 THEN Append(keys, m.name) ELSE keys)

_parse_operators_section(block) == OperatorDocKeys(splitlines(block), <<>>)

-----------------------------------------------------------------------------
(* pycdo/cdo.py: template expansion                                        *)

\* the expansion of one spec: the spec under each name with is_template
\* cleared, or the spec itself
ExpandOne(spec, operator_names) ==
    IF spec.is_template
    THEN [k \in 1..Len(operator_names) |->
             [spec EXCEPT !.op = operator_names[k], !.is_template = FALSE]]
    ELSE <<spec>>

_expand_template_specs(specs, operator_names) ==
    Flatten([k \in 1..Len(specs) |-> ExpandOne(specs[k], operator_names)])

\* The NAME fallback: the first line of the NAME section with "," and "-"
\* in it, left of its first "-", split at ",", stripped, non-empty pieces.
NameFallback(name_block) ==
    LET lines == splitlines(name_block)
        hits == {k \in 1..Len(lines) :
                    Contains(lines[k], <<",">>) /\ Contains(lines[k], <<"-">>)}
        name_line == lines[CHOOSE k \in hits : \A o \in hits : k <= o]
        left == split(name_line, "-")[1]
    IN  IF hits = {} THEN <<>> ELSE NonEmpty(StripAll(split(left, ",")))

\* operator names from the op docs always (the fallback never consulted)
OperatorNames_nofallback(sections) ==
    _parse_operators_section(SectionGet(sections, h_OPERATORS))

\* operator_names: the keys of op_docs, or the NAME fallback when there are none
OperatorNames(sections) ==
    LET keys == _parse_operators_section(SectionGet(sections, h_OPERATORS))
    IN  IF keys # <<>> THEN keys ELSE NameFallback(SectionGet(sections, h_NAME))

\* _attach_dynamic_methods up to the attachment loop: the specs of a help
\* text, or the exception its synopsis raises.
HelpSpecs(help_text) ==
    LET sections == _split_sections(help_text)
        parsed == _parse_synopsis_block(SectionGet(sections, h_SYNOPSIS))
    IN  IF parsed.status = "raised" THEN parsed
        ELSE IF \E k \in 1..Len(parsed.specs) : parsed.specs[k].is_template
        THEN [status |-> "returned",
              specs |-> _expand_template_specs(parsed.specs, OperatorNames(sections))]
        ELSE parsed

-----------------------------------------------------------------------------
(* Help pages: a NAME line, SYNOPSIS lines and OPERATORS lines             *)

MaxSynLines == 2
MaxOperLines == 2

w_sinfo  == <<"s","i","n","f","o">>
w_sinfon == <<"s","i","n","f","o","n">>
w_short  == <<"s","h","o","r","t",SP,"d","e","s","c">>
w_other  == <<"o","t","h","e","r",SP,"d","e","s","c">>
w_more   == <<"m","o","r","e",SP,"t","e","x","t",".">>
w_info   == <<"S","h","o","r","t",SP,"i","n","f","o">>

SynLine(op, req, opt, ins, outs) ==
    [op |-> op, req |-> req, opt |-> opt, ins |-> ins, outs |-> outs]

\* "<operator>,p1 in out", "<operator>,[flag] in out", "x<operator>,p1 in out",
\* "foo,p1 in out", "sinfo in"
PageSynLines ==
    {SynLine(OperatorLit, <<w_p1>>, <<>>, <<w_in>>, <<w_out>>),
     SynLine(OperatorLit, <<>>, <<w_flag>>, <<w_in>>, <<w_out>>),
     SynLine(<<"x">> \o OperatorLit, <<w_p1>>, <<>>, <<w_in>>, <<w_out>>),
     SynLine(w_foo, <<w_p1>>, <<>>, <<w_in>>, <<w_out>>),
     SynLine(w_sinfo, <<>>, <<>>, <<w_in>>, <<>>)}

RenderSynLine(l) ==
    <<SP, SP, SP, SP>> \o l.op
        \o (IF l.req = <<>> THEN <<>> ELSE <<",">> \o join(<<",">>, l.req))
        \o (IF l.opt = <<>> THEN <<>> ELSE <<",", "[">> \o join(<<",">>, l.opt) \o <<"]">>)
        \o <<SP, SP>> \o join(<<SP>>, l.ins \o l.outs)

\* "    sinfo  short desc", "    sinfon  other desc", and a continuation line
PageOperLines ==
    {[name |-> w_sinfo, short |-> w_short], [name |-> w_sinfon, short |-> w_other],
     [name |-> <<>>, short |-> w_more]}

RenderOperLine(l) ==
    IF l.name = <<>> THEN Spaces(8) \o l.short
    ELSE Spaces(4) \o l.name \o <<SP, SP>> \o l.short

\* "    sinfo, sinfon - Short info", "    foo - Short info", no NAME line
PageNameLines ==
    {[names |-> <<w_sinfo, w_sinfon>>], [names |-> <<w_foo>>], [names |-> <<>>]}

RenderNameLine(l) ==
    IF l.names = <<>> THEN <<>>
    ELSE Spaces(4) \o join(<<",", SP>>, l.names) \o <<SP, "-", SP>> \o w_info

PageGens ==
    [name : PageNameLines,
     syn  : SeqsUpTo(PageSynLines, MaxSynLines) \ {<<>>},
     ops  : SeqsUpTo(PageOperLines, MaxOperLines)]

RenderLines(ls) == Flatten([k \in 1..Len(ls) |-> ls[k] \o <<NL>>])

RenderPage(g) ==
    h_NAME \o <<NL>> \o RenderNameLine(g.name) \o <<NL, NL>>
    \o h_SYNOPSIS \o <<NL>>
    \o RenderLines([k \in 1..Len(g.syn) |-> RenderSynLine(g.syn[k])]) \o <<NL>>
    \o (IF g.ops = <<>> THEN <<>>
        ELSE h_OPERATORS \o <<NL>>
             \o RenderLines([k \in 1..Len(g.ops) |-> RenderOperLine(g.ops[k])]))

InitExpand ==
    /\ gen \in PageGens
    /\ arg = RenderPage(gen)
    /\ ret = Pending
    /\ CdoIdle

\* _attach_dynamic_methods(text, cls) parses the page and expands its templates
HelpSpecsCall ==
    /\ ret = Pending
    /\ ret' = HelpSpecs(arg)
    /\ UNCHANGED <<gen, arg, cdoVars>>

NextExpand == HelpSpecsCall

SpecExpand == InitExpand /\ [][NextExpand]_vars

-----------------------------------------------------------------------------
(* C5                                                                      *)

RECURSIVE Dedupe(_, _)
Dedupe(names, seen) ==
    IF names = <<>> THEN seen
    ELSE Dedupe(Tail(names),
                IF \E k \in 1..Len(seen) : seen[k] = names[1] THEN seen
                ELSE Append(seen, names[1]))

\* the keys of the page's operator docs, in order
PageDocKeys(g) ==
    Dedupe(NonEmpty([k \in 1..Len(g.ops) |-> g.ops[k].name]), <<>>)

\* the candidate names: the doc keys or, when there are none, the names of a
\* NAME line that holds a comma
PageCandidates(g) ==
    IF PageDocKeys(g) # <<>> THEN PageDocKeys(g)
    ELSE IF Len(g.name.names) >= 2 THEN g.name.names
    ELSE <<>>

PageIsTemplate(l) ==
    \E i \in 0..(Len(l.op) - Len(OperatorLit)) :
        SubSeq(l.op, i + 1, i + Len(OperatorLit)) = OperatorLit

ConcreteSpec(l, op, tmpl) ==
    [op |-> op, required_params |-> l.req, optional_params |-> l.opt,
     in_tokens |-> l.ins, out_tokens |-> l.outs, is_template |-> tmpl]

ExpectedExpansion(g) ==
    Flatten([k \in 1..Len(g.syn) |->
        IF PageIsTemplate(g.syn[k])
        THEN [n \in 1..Len(PageCandidates(g)) |->
                 ConcreteSpec(g.syn[k], PageCandidates(g)[n], FALSE)]
        ELSE <<ConcreteSpec(g.syn[k], g.syn[k].op, FALSE)>>])

\* C5: with the candidate names the keys of the page's operator docs or,
\* only when there are none, the names of the NAME fallback, every template
\* spec becomes one spec per candidate name with the template's required and
\* optional parameters and input and output tokens and is_template false;
\* the other specs stay as they are, in place; a template without candidate
\* names yields no spec and no error.
Thm_C5_TemplateExpansion ==
    (ret # Pending) =>
        /\ ret.status = "returned"
        /\ ret.specs = ExpectedExpansion(gen)

\* "<operator>,p1 in out" with the docs of sinfo and sinfon became the two
\* specs sinfo and sinfon, both with required_params [p1].
Wit_C5_TwoNames ==
    /\ ret # Pending
    /\ gen.syn = <<SynLine(OperatorLit, <<w_p1>>, <<>>, <<w_in>>, <<w_out>>)>>
    /\ Len(gen.ops) = 2 /\ gen.ops[1].name = w_sinfo /\ gen.ops[2].name = w_sinfon
    /\ Len(ret.specs) = 2
    /\ ret.specs[1].op = w_sinfo /\ ret.specs[2].op = w_sinfon
    /\ ret.specs[1].required_params = <<w_p1>>
    /\ ret.specs[2].required_params = <<w_p1>>

\* A template next to another spec was expanded from the NAME fallback.
Wit_C5_Fallback ==
    /\ ret # Pending
    /\ gen.ops = <<>>
    /\ Len(gen.name.names) = 2
    /\ Len(gen.syn) = 2
    /\ Len(ret.specs) = 3

-----------------------------------------------------------------------------
(* pycdo/cdo.py: binding synthesis. The source of the callable is built as *)
(* text and compiled by exec; the model states when that text compiles and *)
(* what its body computes.                                                 *)

\* Python values of the calls: None, str, int, bool, and a list of str
PyInt(n) == [t |-> "int", v |-> n]
PyBool(b) == [t |-> "bool", v |-> b]
PyList(items) == [t |-> "list", v |-> items]

w_True  == <<"T","r","u","e">>
w_False == <<"F","a","l","s","e">>
w_None  == <<"N","o","n","e">>

\* repr(s) of a str without quotes or escapes in it
Repr(s) == <<"'">> \o s \o <<"'">>

\* str(v)
Str(v) ==
    IF v.t = "str" THEN v.v
    ELSE IF v.t = "int" THEN IntStr(v.v)
    ELSE IF v.t = "bool" THEN (IF v.v THEN w_True ELSE w_False)
    ELSE IF v.t = "list"
         THEN <<"[">> \o join(<<",", SP>>, [k \in 1..Len(v.v) |-> Repr(v.v[k])]) \o <<"]">>
    ELSE w_None

\* bool(v)
Truthy(v) ==
    IF v.t = "str" THEN v.v # <<>>
    ELSE IF v.t = "int" THEN v.v # 0
    ELSE IF v.t = "bool" THEN v.v
    ELSE IF v.t = "list" THEN v.v # <<>>
    ELSE FALSE

\* keyword.kwlist
Keywords ==
    {<<"F","a","l","s","e">>, <<"N","o","n","e">>, <<"T","r","u","e">>,
     <<"a","n","d">>, <<"a","s">>, <<"a","s","s","e","r","t">>,
     <<"a","s","y","n","c">>, <<"a","w","a","i","t">>,
     <<"b","r","e","a","k">>, <<"c","l","a","s","s">>,
     <<"c","o","n","t","i","n","u","e">>, <<"d","e","f">>, <<"d","e","l">>,
     <<"e","l","i","f">>, <<"e","l","s","e">>, <<"e","x","c","e","p","t">>,
     <<"f","i","n","a","l","l","y">>, <<"f","o","r">>, <<"f","r","o","m">>,
     <<"g","l","o","b","a","l">>, <<"i","f">>, <<"i","m","p","o","r","t">>,
     <<"i","n">>, <<"i","s">>, <<"l","a","m","b","d","a">>,
     <<"n","o","n","l","o","c","a","l">>, <<"n","o","t">>, <<"o","r">>,
     <<"p","a","s","s">>, <<"r","a","i","s","e">>,
     <<"r","e","t","u","r","n">>, <<"t","r","y">>, <<"w","h","i","l","e">>,
     <<"w","i","t","h">>, <<"y","i","e","l","d">>}

IsIdentifier(s) ==
    /\ s # <<>>
    /\ s[1] \in LowerCase \cup UpperCase \cup {"_"}
    /\ \A k \in 1..Len(s) : s[k] \in NameChars

w_self        == <<"s","e","l","f">>
w_infiles     == <<"i","n","f","i","l","e","s">>
w_outfile     == <<"o","u","t","f","i","l","e">>
w_run_kwargs  == <<"r","u","n","_","k","w","a","r","g","s">>
w_op_params   == <<"o","p","_","p","a","r","a","m","s">>
w_str         == <<"s","t","r">>
w_bytes       == <<"b","y","t","e","s">>
w_list        == <<"l","i","s","t">>
w_isinstance  == <<"i","s","i","n","s","t","a","n","c","e">>
w_run         == <<"r","u","n">>
w_options     == <<"o","p","t","i","o","n","s">>

\* param_meta.get(opt, ('bool', ''))[0]
ParamType(param_meta, p) == IF p \in DOMAIN param_meta THEN param_meta[p] ELSE "bool"

\* args_list without the defaults: the parameter names of the def, in order
ArgNames(op_spec) ==
    <<w_self>> \o op_spec.required_params
        \o (IF op_spec.in_tokens # <<>> THEN <<w_infiles>> ELSE <<>>)
        \o (IF op_spec.out_tokens # <<>> THEN <<w_outfile>> ELSE <<>>)
        \o op_spec.optional_params \o <<w_run_kwargs>>

\* exec(func_src, ns) compiles: "def op_name(args):" needs an identifier
\* that is no keyword for the name and for every parameter, and no
\* parameter twice.
Compiles(op_name, op_spec) ==
    LET args == ArgNames(op_spec)
    IN  /\ IsIdentifier(op_name) /\ op_name \notin Keywords
        /\ \A k \in 1..Len(args) : IsIdentifier(args[k]) /\ args[k] \notin Keywords
        /\ \A a, b \in 1..Len(args) : a # b => args[a] # args[b]

\* _create_operator_function(op_name, op_spec, param_meta, ...): the
\* callable (its name, its spec and the types of its optional parameters,
\* which is all its body depends on), or SyntaxError.
_create_operator_function(op_name, op_spec, param_meta) ==
    IF ~Compiles(op_name, op_spec) THEN [status |-> "raised", exc |-> "SyntaxError"]
    ELSE [status |-> "returned",
          func |-> [op_name |-> op_name, spec |-> op_spec,
                    types |-> [k \in 1..Len(op_spec.optional_params) |->
                                  ParamType(param_meta, op_spec.optional_params[k])]]]

\* utils.run(operator, inputs, output, options): the command handed to
\* execute. None becomes [], a str a one-element list, a list itself.
AsList(v) == IF v.t = "None" THEN <<>> ELSE IF v.t = "str" THEN <<v.v>> ELSE v.v

run(operator, inputs, output, options) ==
    <<<<"c","d","o">>>> \o AsList(options) \o AsList(operator) \o AsList(inputs)
        \o AsList(output)

\* The value of the name x in the body of the callable: after the first
\* statement, "op_params = []", the name op_params is the list being built,
\* whatever was passed for a parameter of that name.
Lookup(x, env, op_params) == IF x = w_op_params THEN PyList(op_params) ELSE env[x]

\* for rp in required_params: op_params.append(str(rp))
RECURSIVE RequiredLoop(_, _, _)
RequiredLoop(rps, env, op_params) ==
    IF rps = <<>> THEN op_params
    ELSE RequiredLoop(Tail(rps), env,
                      Append(op_params, Str(Lookup(rps[1], env, op_params))))

\* for op in optional_params: "if op: op_params.append('op')" for a bool,
\* "if op is not None: op_params.append(str(op))" otherwise
RECURSIVE OptionalLoop(_, _, _, _)
OptionalLoop(ops, types, env, op_params) ==
    IF ops = <<>> THEN op_params
    ELSE LET v == Lookup(ops[1], env, op_params)
         IN  OptionalLoop(Tail(ops), Tail(types), env,
                 IF types[1] = "bool"
                 THEN (IF Truthy(v) THEN Append(op_params, ops[1]) ELSE op_params)
                 ELSE (IF v # None THEN Append(op_params, Str(v)) ELSE op_params))

\* A call func(self, **kwargs) that binds every parameter without a default.
\* A parameter named like a builtin or global the body uses (str,
\* isinstance, bytes, list, run) shadows it, and the values passed are not
\* callable and no types: using the name where the body needs the builtin
\* raises TypeError.
CallBinding(func, kwargs) ==
    LET spec == func.spec
        params == {ArgNames(spec)[k] : k \in 2..(Len(ArgNames(spec)) - 1)}
        default(p) ==
            LET k == CHOOSE i \in 1..Len(spec.optional_params) : spec.optional_params[i] = p
            IN  IF func.types[k] = "bool" THEN PyBool(FALSE) ELSE None
        env == [p \in params |-> IF p \in DOMAIN kwargs THEN kwargs[p] ELSE default(p)]
        strCalled ==
            \/ spec.required_params # <<>>
            \/ \E k \in 1..Len(spec.optional_params) :
                  /\ func.types[k] # "bool"
                  /\ Lookup(spec.optional_params[k], env, <<>>) # None
        op_params == OptionalLoop(spec.optional_params, func.types, env,
                                  RequiredLoop(spec.required_params, env, <<>>))
        param_str == IF op_params # <<>> THEN <<",">> \o join(<<",">>, op_params) ELSE <<>>
        full_operator == func.op_name \o param_str
        isStr == spec.in_tokens # <<>> /\ env[w_infiles].t = "str"
        input_list ==
            IF spec.in_tokens = <<>> THEN <<>>
            ELSE IF isStr THEN <<env[w_infiles].v>> ELSE env[w_infiles].v
        options == IF w_options \in DOMAIN kwargs /\ w_options \notin params
                   THEN kwargs[w_options] ELSE None
        inputs == IF input_list # <<>> THEN PyList(input_list) ELSE None
        output == IF spec.out_tokens # <<>> THEN env[w_outfile] ELSE None
        typeError ==
            \/ w_str \in params /\ strCalled
            \/ /\ spec.in_tokens # <<>>
               /\ \/ w_isinstance \in params
                  \/ w_str \in params
                  \/ w_bytes \in params /\ ~isStr
                  \/ w_list \in params /\ ~isStr
            \/ w_run \in params
    IN  IF typeError THEN [status |-> "raised", exc |-> "TypeError"]
        ELSE [status |-> "returned",
              operator |-> full_operator, inputs |-> inputs, output |-> output,
              options |-> options,
              command |-> run(PyStr(full_operator), inputs, output, options)]

-----------------------------------------------------------------------------
(* Concrete specs, their bindings, and calls of the bindings               *)

MaxRequired == 2
MaxOptional == 2

w_remapbil == <<"r","e","m","a","p","b","i","l">>
w_grid     == <<"g","r","i","d">>
w_n        == <<"n">>
w_r360     == <<"r","3","6","0","x","1","8","0">>
w_in_nc    == <<"i","n",".","n","c">>
w_out_nc   == <<"o","u","t",".","n","c">>
w_a_nc     == <<"a",".","n","c">>
w_b_nc     == <<"b",".","n","c">>
w_yes      == <<"y","e","s">>
w_f        == <<"-","f">>

\* the parameter block "n  INT  a number" and "grid  STRING  a grid"
CallParamMeta == [p \in {w_n, w_grid} |-> IF p = w_n THEN "int" ELSE "str"]

CallSpecs ==
    [op : {w_remapbil},
     required_params : SeqsUpTo({w_grid, w_op_params}, MaxRequired),
     optional_params : SeqsUpTo({w_flag, w_n, w_op_params, w_str}, MaxOptional),
     in_tokens : {<<w_in>>, <<w_in1, w_in2>>},
     out_tokens : {<<>>, <<w_out>>},
     is_template : {FALSE}]

Absent == [t |-> "absent"]
RequiredValues == {PyStr(w_r360), PyInt(5)}
OptionalValues == {Absent, PyBool(TRUE), PyBool(FALSE), PyInt(0), PyStr(w_yes)}
InfilesValues == {PyStr(w_in_nc), PyList(<<w_a_nc, w_b_nc>>)}
OptionsValues == {Absent, PyStr(w_f)}

\* the keyword arguments of a call: a value for every required parameter,
\* for infiles and for outfile, and for some of the optional parameters
Kwargs(spec, rv, ov, inf, opt) ==
    LET req == {spec.required_params[k] : k \in 1..Len(spec.required_params)}
        given == {spec.optional_params[k] : k \in
                     {i \in 1..Len(spec.optional_params) : ov[i] # Absent}}
        names == req \cup given \cup {w_infiles}
                     \cup (IF spec.out_tokens # <<>> THEN {w_outfile} ELSE {})
                     \cup (IF opt # Absent THEN {w_options} ELSE {})
    IN  [p \in names |->
            IF p \in req
            THEN rv[CHOOSE k \in 1..Len(spec.required_params) : spec.required_params[k] = p]
            ELSE IF p \in given
            THEN ov[CHOOSE k \in 1..Len(spec.optional_params) : spec.optional_params[k] = p]
            ELSE IF p = w_infiles THEN inf
            ELSE IF p = w_outfile THEN PyStr(w_out_nc)
            ELSE opt]

InitCall ==
    /\ gen \in CallSpecs
    /\ arg = <<>>
    /\ ret = Pending
    /\ CdoIdle

\* _create_operator_function(op, spec, param_meta, ...) returns or raises
Synthesize ==
    /\ ret = Pending
    /\ ret' = _create_operator_function(gen.op, gen, CallParamMeta)
    /\ UNCHANGED <<gen, arg, cdoVars>>

\* the synthesized callable is called with keyword arguments
CallOperator ==
    /\ ret.status = "returned"
    /\ "call" \notin DOMAIN ret
    /\ \E rv \in [1..Len(gen.required_params) -> RequiredValues],
          ov \in [1..Len(gen.optional_params) -> OptionalValues],
          inf \in InfilesValues, opt \in OptionsValues :
            /\ arg' = Kwargs(gen, rv, ov, inf, opt)
            /\ ret' = [status |-> "returned", func |-> ret.func,
                       call |-> CallBinding(ret.func, arg')]
    /\ UNCHANGED <<gen, cdoVars>>

NextCall == Synthesize \/ CallOperator

SpecCall == InitCall /\ [][NextCall]_vars

-----------------------------------------------------------------------------
(* C4                                                                      *)

Called == ret # Pending /\ ret.status = "returned" /\ "call" \in DOMAIN ret

\* the parameter list of the claim: the stringified values of the required
\* parameters, then per optional parameter its name (bool-typed and truthy)
\* or its stringified value (not bool-typed and supplied)
RECURSIVE ClaimedOptional(_, _, _)
ClaimedOptional(ops, types, kwargs) ==
    IF ops = <<>> THEN <<>>
    ELSE (IF types[1] = "bool"
          THEN (IF ops[1] \in DOMAIN kwargs /\ Truthy(kwargs[ops[1]])
                THEN <<ops[1]>> ELSE <<>>)
          ELSE (IF ops[1] \in DOMAIN kwargs /\ kwargs[ops[1]] # None
                THEN <<Str(kwargs[ops[1]])>> ELSE <<>>))
         \o ClaimedOptional(Tail(ops), Tail(types), kwargs)

ClaimedParams(spec, types, kwargs) ==
    [k \in 1..Len(spec.required_params) |-> Str(kwargs[spec.required_params[k]])]
        \o ClaimedOptional(spec.optional_params, types, kwargs)

ClaimedToken(spec, types, kwargs) ==
    spec.op \o (IF ClaimedParams(spec, types, kwargs) = <<>> THEN <<>>
                ELSE <<",">> \o join(<<",">>, ClaimedParams(spec, types, kwargs)))

ClaimedInputs(kwargs) ==
    IF kwargs[w_infiles].t = "str" THEN <<kwargs[w_infiles].v>> ELSE kwargs[w_infiles].v

FormatsAsClaimed ==
    /\ ret.call.status = "returned"
    /\ ret.call.operator = ClaimedToken(gen, ret.func.types, arg)
    /\ ret.call.inputs = PyList(ClaimedInputs(arg))
    /\ gen.out_tokens # <<>> => ret.call.output = PyStr(w_out_nc)
    /\ ret.call.command =
           <<<<"c","d","o">>>>
               \o (IF w_options \in DOMAIN arg THEN <<arg[w_options].v>> ELSE <<>>)
               \o <<ClaimedToken(gen, ret.func.types, arg)>> \o ClaimedInputs(arg)
               \o (IF gen.out_tokens # <<>> THEN <<w_out_nc>> ELSE <<>>)

\* C4: for every concrete spec and every call of its binding, the operator
\* token handed to the process invoker is the operator name, followed when
\* there are parameters by a comma and the comma-joined parameter list; the
\* inputs are the one path or the paths given, in order; the output path is
\* passed when the spec has an output token.
Claim_C4_CallFormatting == Called => FormatsAsClaimed

\* The bindings whose parameters are none of the names their body uses
\* itself format every call as claimed.
Inv_C4_WithoutNameCapture ==
    (Called /\ {w_op_params, w_str} \cap DOMAIN arg = {}
            /\ \A k \in 1..Len(gen.optional_params) :
                   gen.optional_params[k] \notin {w_op_params, w_str})
        => FormatsAsClaimed

\* remapbil(grid="r360x180", infiles="in.nc", outfile="out.nc") ran
\* "cdo remapbil,r360x180 in.nc out.nc".
Inv_C4_Remapbil ==
    (Called /\ gen.required_params = <<w_grid>> /\ gen.optional_params = <<>>
            /\ gen.out_tokens # <<>>
            /\ arg = [p \in {w_grid, w_infiles, w_outfile} |->
                         IF p = w_grid THEN PyStr(w_r360)
                         ELSE IF p = w_infiles THEN PyStr(w_in_nc) ELSE PyStr(w_out_nc)])
        => /\ ret.call.operator = w_remapbil \o <<",">> \o w_r360
           /\ ret.call.inputs = PyList(<<w_in_nc>>)
           /\ ret.call.output = PyStr(w_out_nc)

-----------------------------------------------------------------------------
(* pycdo/cdo.py: attachment to the class and the constructor of Cdo        *)

\* for spec in specs: one turn of the loop. A name the class already has
\* is skipped; else the callable is synthesized (which can raise) and set.
\* setattr(cls, op_name, func), or the exception of the synthesis
SetAttr(c, op_name, f) ==
    IF f.status = "raised" THEN [kind |-> "raised", cls |-> c]
    ELSE [kind |-> "bound",
          cls |-> [n \in DOMAIN c \cup {op_name} |->
                      IF n = op_name THEN [kind |-> "operator", func |-> f.func]
                      ELSE c[n]]]

AttachSpec_overwrite(spec, param_meta, c) ==
    SetAttr(c, spec.op, _create_operator_function(spec.op, spec, param_meta))

AttachSpec(spec, param_meta, c) ==
    IF spec.op \in DOMAIN c THEN [kind |-> "skipped", cls |-> c]
    ELSE SetAttr(c, spec.op, _create_operator_function(spec.op, spec, param_meta))

\* the loop over the specs of one help page; an exception ends it. Every
\* turn is recorded with its spec and what it did.
RECURSIVE AttachLoop(_, _, _, _)
AttachTurn(specs, param_meta, attempts, a) ==
    IF a.kind = "raised"
    THEN [status |-> "raised", cls |-> a.cls,
          attempts |-> Append(attempts, [name |-> specs[1].op, spec |-> specs[1],
                                         param_meta |-> param_meta, kind |-> a.kind])]
    ELSE AttachLoop(Tail(specs), param_meta, a.cls,
                    Append(attempts, [name |-> specs[1].op, spec |-> specs[1],
                                      param_meta |-> param_meta, kind |-> a.kind]))

AttachLoop(specs, param_meta, c, attempts) ==
    IF specs = <<>> THEN [status |-> "returned", cls |-> c, attempts |-> attempts]
    ELSE AttachTurn(specs, param_meta, attempts, AttachSpec(specs[1], param_meta, c))

\* the parsing part of _attach_dynamic_methods
ParsePage(help_text) ==
    [specs |-> HelpSpecs(help_text),
     param_meta |-> _parse_parameters_block(
                        SectionGet(_split_sections(help_text), h_PARAMETER))]

w_dup == <<"d","u","p">>
w_list_operators == <<"l","i","s","t","_","o","p","e","r","a","t","o","r","s">>
w_init == <<"_","_","i","n","i","t","_","_">>
w_attach_operator == <<"_","a","t","t","a","c","h","_","o","p","e","r","a","t","o","r">>

\* "cat,[flag]  in out"
PageCat ==
    RenderPage([name |-> [names |-> <<w_cat>>],
                syn |-> <<SynLine(w_cat, <<>>, <<w_flag>>, <<w_in>>, <<w_out>>)>>,
                ops |-> <<>>])

\* "copy  in out" and "cat  in out"
PageCopy ==
    RenderPage([name |-> [names |-> <<w_copy, w_cat>>],
                syn |-> <<SynLine(w_copy, <<>>, <<>>, <<w_in>>, <<w_out>>),
                          SynLine(w_cat, <<>>, <<>>, <<w_in>>, <<w_out>>)>>,
                ops |-> <<>>])

\* "<operator>,p1  in out" with the names cat and dup on the NAME line
PageTemplate ==
    RenderPage([name |-> [names |-> <<w_cat, w_dup>>],
                syn |-> <<SynLine(OperatorLit, <<w_p1>>, <<>>, <<w_in>>, <<w_out>>)>>,
                ops |-> <<>>])

\* "dup,p1,p1  in out": a parameter twice, which does not compile
PageDupTwice ==
    RenderPage([name |-> [names |-> <<w_dup>>],
                syn |-> <<SynLine(w_dup, <<w_p1, w_p1>>, <<>>, <<w_in>>, <<w_out>>)>>,
                ops |-> <<>>])

\* "list_operators  in" (a name the class defines itself) and "dup  in out"
PageDup ==
    RenderPage([name |-> [names |-> <<w_dup>>],
                syn |-> <<SynLine(w_list_operators, <<>>, <<>>, <<w_in>>, <<>>),
                          SynLine(w_dup, <<>>, <<>>, <<w_in>>, <<w_out>>)>>,
                ops |-> <<>>])

HelpPages == {PageCat, PageCopy, PageTemplate, PageDupTwice, PageDup}

\* a help page parses the same every time
ParsedPages == [p \in HelpPages |-> ParsePage(p)]

\* _attach_dynamic_methods(help_text, cls)
AttachPage(page, c) ==
    IF page.specs.status = "raised"
    THEN [status |-> "raised", cls |-> c, attempts |-> <<>>]
    ELSE AttachLoop(page.specs.specs, page.param_meta, c, <<>>)

_attach_dynamic_methods(help_text, c) == AttachPage(ParsedPages[help_text], c)

\* print(f"Warning: Could not attach operator '{operator}'.")
WarningLine(operator) ==
    <<"W","a","r","n","i","n","g",":",SP,"C","o","u","l","d",SP,"n","o","t",SP,
      "a","t","t","a","c","h",SP,"o","p","e","r","a","t","o","r",SP,"'">>
        \o operator \o <<"'", ".">>

Warn_silent(ws, operator) == ws

Warn(ws, operator) == Append(ws, WarningLine(operator))

InvokerError == [status |-> "raised", exc |-> "Exception"]

\* Cdo._attach_operator(operator), given what run('-h', operator) did
Attached(operator, ws, a) ==
    IF a.status = "raised"
    THEN [cls |-> a.cls, warnings |-> Warn(ws, operator),
          outcome |-> "raised", attempts |-> a.attempts]
    ELSE [cls |-> a.cls, warnings |-> ws, outcome |-> "ok", attempts |-> a.attempts]

_attach_operator(operator, fetched, c, ws) ==
    IF fetched.status = "raised"
    THEN [cls |-> c, warnings |-> Warn(ws, operator),
          outcome |-> "fetch_failed", attempts |-> <<>>]
    ELSE Attached(operator, ws, _attach_dynamic_methods(fetched.text, c))

-----------------------------------------------------------------------------
(* Constructions of Cdo against an invoker                                 *)

MaxInits == 2

\* "dup  Short info (1|1)", "cat ...", "copy ..."
OperatorListing ==
    Flatten([k \in 1..3 |->
        <<w_dup, w_cat, w_copy>>[k] \o <<SP, SP>> \o w_info
            \o <<SP, "(", "1", "|", "1", ")", NL>>])

\* the listing, an empty text, a text with no operator line, "foo (-|1)"
ListingTexts ==
    {OperatorListing, <<>>, w_junk \o <<NL>>,
     w_foo \o <<SP, "(", "-", "|", "1", ")", NL>>}

ParsedListings == [t \in ListingTexts |-> parse_cdo_operator_listing(t)]

TableNames == {w_dup, w_cat, w_copy}

\* the members the class statement defines
ClassMembers ==
    [n \in {w_init, w_attach_operator, w_list_operators} |-> [kind |-> "method"]]

Names(df) == [k \in 1..Len(df) |-> df[k].name]

\* gen.page: the help page the invoker prints for each operator
InitCdo ==
    /\ gen \in [page : [TableNames -> HelpPages]]
    /\ arg = <<>>
    /\ ret = Pending
    /\ pc = "start"
    /\ operators = <<>>
    /\ idx = 0
    /\ cls = ClassMembers
    /\ warnings = <<>>
    /\ log = <<>>
    /\ ninit = 0

\* Cdo(): the listing call and its parse. An exception of either leaves
\* __init__; else the loop over the names starts. warnings holds the lines
\* this construction prints.
Construct ==
    /\ pc \in {"start", "done", "raised"}
    /\ ninit < MaxInits
    /\ ninit' = ninit + 1
    /\ \E listed \in {InvokerError}
                       \cup {[status |-> "returned", text |-> t] : t \in ListingTexts} :
         /\ arg' = listed
         /\ \E r \in (IF listed.status = "raised" THEN {listed}
                      ELSE ParsedListings[listed.text]) :
              IF r.status = "raised"
              THEN pc' = "raised" /\ ret' = r /\ operators' = <<>> /\ idx' = 0
              ELSE pc' = "loop" /\ ret' = Pending /\ operators' = r.rows /\ idx' = 1
    /\ warnings' = <<>>
    /\ UNCHANGED <<gen, cls, log>>

\* for op in self.operators['name']: self._attach_operator(op)
AttachOperator ==
    /\ pc = "loop"
    /\ idx <= Len(operators)
    /\ \E fetched \in {InvokerError,
                       [status |-> "returned", text |-> gen.page[operators[idx].name]]} :
         \E r \in {_attach_operator(operators[idx].name, fetched, cls, warnings)} :
             /\ cls' = r.cls
             /\ warnings' = r.warnings
             /\ log' = Append(log, [inst |-> ninit, operator |-> operators[idx].name,
                                    outcome |-> r.outcome, attempts |-> r.attempts])
    /\ idx' = idx + 1
    /\ UNCHANGED <<gen, arg, ret, pc, operators, ninit>>

\* the loop is over and __init__ returns
Finish ==
    /\ pc = "loop"
    /\ idx > Len(operators)
    /\ pc' = "done"
    /\ UNCHANGED <<gen, arg, ret, operators, idx, cls, warnings, log, ninit>>

\* list_operators(): self.operators.name.tolist()
ListOperators ==
    /\ pc = "done"
    /\ ret = Pending
    /\ ret' = PyList(Names(operators))
    /\ UNCHANGED <<gen, arg, pc, operators, idx, cls, warnings, log, ninit>>

NextCdo == Construct \/ AttachOperator \/ Finish \/ ListOperators

SpecCdo == InitCdo /\ [][NextCdo]_vars

-----------------------------------------------------------------------------
(* C1, C2, C3                                                              *)

\* every attachment attempt so far, in order
Attempts == Flatten([k \in 1..Len(log) |-> log[k].attempts])

AttemptsFor(n) == {k \in 1..Len(Attempts) : Attempts[k].name = n}

Synthesized(a) == _create_operator_function(a.name, a.spec, a.param_meta)

\* C1 as stated: the callable bound to a name is the one the first attempt
\* for that name synthesizes.
Claim_C1_FirstAttemptWins ==
    \A n \in DOMAIN cls \ DOMAIN ClassMembers :
        LET first == CHOOSE k \in AttemptsFor(n) : \A j \in AttemptsFor(n) : k <= j
        IN  /\ AttemptsFor(n) # {}
            /\ Synthesized(Attempts[first]).status = "returned"
            /\ cls[n].func = Synthesized(Attempts[first]).func

FirstWriterWins ==
    /\ \A n \in DOMAIN ClassMembers :
           /\ n \in DOMAIN cls /\ cls[n] = ClassMembers[n]
           /\ \A k \in AttemptsFor(n) : Attempts[k].kind = "skipped"
    /\ \A n \in DOMAIN cls \ DOMAIN ClassMembers :
           \E b \in AttemptsFor(n) :
               /\ Attempts[b].kind = "bound"
               /\ cls[n] = [kind |-> "operator", func |-> Synthesized(Attempts[b]).func]
               /\ \A k \in AttemptsFor(n) :
                      /\ k < b => Attempts[k].kind = "raised"
                      /\ k > b => Attempts[k].kind = "skipped"
    /\ \A k \in 1..Len(Attempts) :
           Attempts[k].kind = "bound" => Attempts[k].name \in DOMAIN cls

MembersStay == \A n \in DOMAIN cls : n \in DOMAIN cls' /\ cls'[n] = cls[n]

\* C1: over any sequence of attachment attempts on the class, a name has at
\* most one bound callable; it is the one synthesized by the first attempt
\* for that name whose synthesis succeeded (an attempt whose synthesis
\* raises binds nothing); every attempt for a name the class already has is
\* a no-op, and no member of the class ever changes.
Thm_C1_FirstWriterWins == [](FirstWriterWins) /\ [][MembersStay]_vars

\* cat was bound from one spec and a later attempt with another spec for
\* cat was skipped
Wit_C1_LaterAttemptSkipped ==
    /\ pc = "done"
    /\ \E b, k \in AttemptsFor(w_cat) :
           /\ b < k
           /\ Attempts[b].kind = "bound" /\ Attempts[k].kind = "skipped"
           /\ Attempts[b].spec # Attempts[k].spec

\* the turns of the loop of the construction in progress
Entries == SelectSeq(log, LAMBDA e : e.inst = ninit)

FetchFailed == {k \in 1..Len(Entries) : Entries[k].outcome = "fetch_failed"}

OneFetchFailed ==
    /\ pc \in {"loop", "done"}
    /\ Cardinality(FetchFailed) = 1
    /\ \A k \in 1..Len(Entries) : Entries[k].outcome # "raised"

\* C2: when the help fetch of exactly one operator of the table raises (and
\* nothing else does), the construction goes on to every other operator of
\* the table, every spec of their help pages ends up bound on the class,
\* and exactly one warning is printed, the one for the failed operator.
Thm_C2_FaultTolerance ==
    OneFetchFailed =>
        /\ warnings = <<WarningLine(Entries[CHOOSE k \in FetchFailed : TRUE].operator)>>
        /\ [k \in 1..Len(Entries) |-> Entries[k].operator]
               = SubSeq(Names(operators), 1, idx - 1)
        /\ pc = "done" => Len(Entries) = Len(operators)
        /\ \A k \in 1..Len(Entries) : \A j \in 1..Len(Entries[k].attempts) :
               Entries[k].attempts[j].name \in DOMAIN cls

\* the fetch for the first operator failed and an operator after it was bound
Wit_C2_OthersAttached ==
    /\ pc = "done"
    /\ OneFetchFailed
    /\ Len(warnings) = 1
    /\ FetchFailed = {1}
    /\ \E k \in 2..Len(Entries) : \E j \in 1..Len(Entries[k].attempts) :
           Entries[k].attempts[j].kind = "bound"

\* C3: constructing Cdo returns without raising, whatever the invoker does
\* and whatever the listing text is.
Claim_C3_InitAlwaysCompletes == pc # "raised"

=============================================================================
